---- MODULE Spec2Model ----
(***************************************************************************)
(* ph-weather: the cache-aside sun-phase handler of src/main.go.           *)
(*                                                                         *)
(* main reads the environment, pings Redis and starts the listener; the    *)
(* process then serves GET /weather/sun_phase/v1.  Each request runs       *)
(* handleSunPhase on its own goroutine; the steps of a request are cut at  *)
(* its blocking calls: redis Get, the upstream http.Get, redis Set; the    *)
(* redis Set is cut once more, where the server executes it.               *)
(* Strings are TLA+ strings, built as the code builds them; the upstream   *)
(* hour/minute fields are sequences of characters so that strconv.Atoi can *)
(* be computed digit by digit.  Time is counted in hours.                  *)
(***************************************************************************)
EXTENDS Integers, Sequences, FiniteSets, TLC

VARIABLES environ, boot, errCall, proc, config, clock, wall, nAdjust, cache, req

vars == <<environ, boot, errCall, proc, config, clock, wall, nAdjust, cache, req>>

(***************************************************************************)
(* Bounds of the model.                                                    *)
(***************************************************************************)
NumReq == 2          \* requests the transport dispatches
MaxClock == 168      \* hours of elapsed time explored
MaxAdjust == 1       \* times the local wall clock is set back
ForeignTTL == 24     \* remaining hours of an entry found in Redis at startup
MaxRedisErrors == 1  \* redis calls that return an error other than redis.Nil

Requests == 1..NumReq

(***************************************************************************)
(* Inputs.                                                                 *)
(***************************************************************************)
Methods == {"GET", "POST"}
\* the process starts with the default prefix at 23:00 local time on
\* 2024-03-15, or with REDIS_PREFIX=test: at 23:00 on 2023-12-31; the hours
\* are counted from 1970-01-01 00:00 local time
Starts == { [prefix |-> "ph:",   hour |-> 19797 * 24 + 23],
            [prefix |-> "test:", hour |-> 19722 * 24 + 23] }
\* the environment of the process: os.Getenv gives "" for an unset
\* variable; REDIS_DB is kept as a sequence of characters for strconv.Atoi.
\* Every subset of the required variables is left unset, under five
\* settings of the optional variables: all unset, all set, a REDIS_DB that
\* is not a number, a REDIS_DB that is a number outside the int range, and a
\* REDIS_DB that is that number followed by a letter.
TwentyNines == [i \in 1..20 |-> "9"]
TwentyNinesX == Append(TwentyNines, "x")
RequiredEnv == <<"REDIS_ADDR", "WU_KEY", "WU_LOCATION">>
RequiredValue(name) ==
    CASE name = "REDIS_ADDR"  -> "localhost:6379"
      [] name = "WU_KEY"      -> "0123456789abcdef"
      [] name = "WU_LOCATION" -> "WA/Seattle"
OptionalEnvs ==
    { [HTTP_PORT |-> "", REDIS_PASSWORD |-> "", REDIS_DB |-> <<>>,
       REDIS_PREFIX |-> ""],
      [HTTP_PORT |-> "9090", REDIS_PASSWORD |-> "hunter2", REDIS_DB |-> <<"3">>,
       REDIS_PREFIX |-> "test:"],
      [HTTP_PORT |-> "", REDIS_PASSWORD |-> "", REDIS_DB |-> <<"x">>,
       REDIS_PREFIX |-> ""],
      [HTTP_PORT |-> "", REDIS_PASSWORD |-> "", REDIS_DB |-> TwentyNines,
       REDIS_PREFIX |-> ""],
      [HTTP_PORT |-> "", REDIS_PASSWORD |-> "", REDIS_DB |-> TwentyNinesX,
       REDIS_PREFIX |-> ""] }
Environments ==
    { [HTTP_PORT      |-> o.HTTP_PORT,
       REDIS_ADDR     |-> IF "REDIS_ADDR" \in unset THEN ""
                          ELSE RequiredValue("REDIS_ADDR"),
       REDIS_PASSWORD |-> o.REDIS_PASSWORD,
       REDIS_DB       |-> o.REDIS_DB,
       REDIS_PREFIX   |-> o.REDIS_PREFIX,
       WU_KEY         |-> IF "WU_KEY" \in unset THEN ""
                          ELSE RequiredValue("WU_KEY"),
       WU_LOCATION    |-> IF "WU_LOCATION" \in unset THEN ""
                          ELSE RequiredValue("WU_LOCATION")] :
      o \in OptionalEnvs, unset \in SUBSET {"REDIS_ADDR", "WU_KEY", "WU_LOCATION"} }
PingErrors == {"dial tcp 127.0.0.1:6379: connect: connection refused"}
TickSteps == {167, 168}
BackSteps == {168}
UpstreamErrors == {"dial tcp: connection refused"}
ForeignValue == "{\"data\":null}"

(***************************************************************************)
(* time.Time.Date(): the civil date of a day number (days since            *)
(* 1970-01-01), proleptic Gregorian calendar.                              *)
(***************************************************************************)
CivilFromDays(z0) ==
    LET z   == z0 + 719468
        era == z \div 146097
        doe == z - era * 146097
        yoe == (doe - doe \div 1460 + doe \div 36524 - doe \div 146096) \div 365
        doy == doe - (365 * yoe + yoe \div 4 - yoe \div 100)
        mp  == (5 * doy + 2) \div 153
        d   == doy - (153 * mp + 2) \div 5 + 1
        m   == IF mp < 10 THEN mp + 3 ELSE mp - 9
        y   == yoe + era * 400 + (IF m <= 2 THEN 1 ELSE 0)
    IN [year |-> y, month |-> m, day |-> d]

\* time.Now() as the handler sees it: the local wall clock, in hours
Today(w) == CivilFromDays(w \div 24)

\* time.Month.String()
MonthName(m) ==
    <<"January", "February", "March", "April", "May", "June", "July",
      "August", "September", "October", "November", "December">>[m]

\* fmt.Sprintf("%sweather:sun_phase:%d-%s-%d", prefix, Year(), Month(), Day())
CacheKeyBadNumericMonth(prefix, date) ==
    prefix \o "weather:sun_phase:" \o ToString(date.year) \o "-"
           \o ToString(date.month) \o "-" \o ToString(date.day)
CacheKey(prefix, date) ==
    prefix \o "weather:sun_phase:" \o ToString(date.year) \o "-"
           \o MonthName(date.month) \o "-" \o ToString(date.day)

(***************************************************************************)
(* strconv.Atoi on a string given as a sequence of characters.  A Go int   *)
(* (64 bits in this build) is held as its decimal numeral, the string      *)
(* strconv.Itoa gives for it, so that the whole int range is covered.      *)
(* Atoi takes the fast path for 1 to 18 characters and ParseInt otherwise. *)
(* ParseUint reads the characters from left to right and stops at the      *)
(* first one that is not a digit (syntax error, value 0) or that takes the *)
(* digits read so far beyond uint64 (range error), whichever comes first;  *)
(* ParseInt then checks the int range.  A range error gives the nearest    *)
(* limit of the int range.                                                 *)
(***************************************************************************)
DigitChars == <<"0", "1", "2", "3", "4", "5", "6", "7", "8", "9">>
IsDigit(c) == \E i \in 1..10 : DigitChars[i] = c
DigitVal(c) == (CHOOSE i \in 1..10 : DigitChars[i] = c) - 1

\* the text of a sequence of characters
RECURSIVE Text(_)
Text(s) == IF s = <<>> THEN "" ELSE Head(s) \o Text(Tail(s))

\* the digits of 1<<63 - 1, of 1<<63 and of 1<<64 - 1
MaxIntDigits == <<"9", "2", "2", "3", "3", "7", "2", "0", "3", "6",
                  "8", "5", "4", "7", "7", "5", "8", "0", "7">>
MinIntDigits == <<"9", "2", "2", "3", "3", "7", "2", "0", "3", "6",
                  "8", "5", "4", "7", "7", "5", "8", "0", "8">>
MaxUintDigits == <<"1", "8", "4", "4", "6", "7", "4", "4", "0", "7",
                   "3", "7", "0", "9", "5", "5", "1", "6", "1", "5">>

\* a digit string without its leading zeros (one digit is always kept)
RECURSIVE StripZeros(_)
StripZeros(s) ==
    IF Len(s) > 1 /\ Head(s) = "0" THEN StripZeros(Tail(s)) ELSE s

\* a > b for digit strings without leading zeros
RECURSIVE DigitsGreater(_, _)
DigitsGreater(a, b) ==
    IF Len(a) # Len(b) THEN Len(a) > Len(b)
    ELSE IF a = <<>> THEN FALSE
    ELSE IF Head(a) # Head(b) THEN DigitVal(Head(a)) > DigitVal(Head(b))
    ELSE DigitsGreater(Tail(a), Tail(b))

SyntaxError == [val |-> "0", err |-> TRUE, msg |-> "invalid syntax"]
RangeError(neg) ==
    [val |-> IF neg THEN "-" \o Text(MinIntDigits) ELSE Text(MaxIntDigits),
     err |-> TRUE, msg |-> "value out of range"]
\* the int of sign neg and magnitude mag (digits without leading zeros)
IntValue(neg, mag) ==
    [val |-> IF neg /\ mag # <<"0">> THEN "-" \o Text(mag) ELSE Text(mag),
     err |-> FALSE, msg |-> ""]

\* the loop of ParseUint(s, 10, 0) over the characters rest, n being the
\* value of those read before (digits without leading zeros, <<>> at the
\* start): n is the uint64 read, msg the Err of the *NumError ("" for nil)
RECURSIVE ParseUintLoop(_, _)
ParseUintLoop(rest, n) ==
    IF rest = <<>> THEN [n |-> n, msg |-> ""]
    ELSE IF ~IsDigit(Head(rest)) THEN [n |-> <<"0">>, msg |-> "invalid syntax"]
    ELSE IF Len(n) >= 19
            /\ DigitsGreater(StripZeros(Append(n, Head(rest))), MaxUintDigits)
    THEN [n |-> MaxUintDigits, msg |-> "value out of range"]
    ELSE ParseUintLoop(Tail(rest), StripZeros(Append(n, Head(rest))))

ParseUint(s) ==
    IF s = <<>> THEN [n |-> <<"0">>, msg |-> "invalid syntax"]
    ELSE ParseUintLoop(s, <<>>)

\* ParseInt(s, 10, 0): the sign is picked off, the rest goes to ParseUint; a
\* syntax error gives 0, anything else is checked against the int range
ParseIntOf(neg, un) ==
    IF un.msg = "invalid syntax" THEN SyntaxError
    ELSE IF DigitsGreater(un.n, IF neg THEN MinIntDigits ELSE MaxIntDigits)
    THEN RangeError(neg)
    ELSE IntValue(neg, un.n)
ParseInt(s) ==
    IF s = <<>> THEN SyntaxError
    ELSE IF Head(s) \in {"+", "-"} THEN ParseIntOf(Head(s) = "-", ParseUint(Tail(s)))
    ELSE ParseIntOf(FALSE, ParseUint(s))

\* the fast path of Atoi, for a string too short to leave the int range:
\* digits is s without its sign
AtoiFast(neg, digits) ==
    IF digits = <<>> \/ \E i \in 1..Len(digits) : ~IsDigit(digits[i])
    THEN SyntaxError
    ELSE IntValue(neg, StripZeros(digits))

\* val: the int returned, as its numeral; err: the error is not nil;
\* msg: the Err of the *NumError
Atoi(s) ==
    IF 0 < Len(s) /\ Len(s) < 19
    THEN IF Head(s) \in {"+", "-"} THEN AtoiFast(Head(s) = "-", Tail(s))
         ELSE AtoiFast(FALSE, s)
    ELSE ParseInt(s)

\* the text of the error strconv.Atoi returns for s
AtoiError(s) ==
    "strconv.Atoi: parsing \"" \o Text(s) \o "\": " \o Atoi(s).msg

(***************************************************************************)
(* Startup: collectConfig and panicOnError.  log.Fatal and log.Fatalf      *)
(* print the message and exit the process, so a fatal result carries the   *)
(* message and no Config is returned.                                      *)
(***************************************************************************)
ZeroConfig ==
    [HTTPPort |-> "", RedisAddr |-> "", RedisDB |-> "0", RedisPassword |-> "",
     RedisPrefix |-> "", WUndergroundKey |-> "", WUndergroundLocation |-> ""]

\* the message panicOnError exits with; "" when err is nil
panicOnError(err, msg) == IF err # "" THEN msg \o ": " \o err ELSE ""

\* fmt's %v of a []string
RECURSIVE JoinSpace(_)
JoinSpace(list) ==
    IF list = <<>> THEN ""
    ELSE IF Len(list) = 1 THEN list[1]
    ELSE list[1] \o " " \o JoinSpace(Tail(list))
SprintList(list) == "[" \o JoinSpace(list) \o "]"

\* the missingEnv slice after the three checks, in the order of the checks
MissingEnvBadFirstOnly(e) ==
    IF e.REDIS_ADDR = "" THEN <<"REDIS_ADDR">>
    ELSE IF e.WU_KEY = "" THEN <<"WU_KEY">>
    ELSE IF e.WU_LOCATION = "" THEN <<"WU_LOCATION">>
    ELSE <<>>
MissingEnv(e) ==
    LET m1 == IF e.REDIS_ADDR = "" THEN <<"REDIS_ADDR">> ELSE <<>>
        m2 == IF e.WU_KEY = "" THEN Append(m1, "WU_KEY") ELSE m1
    IN IF e.WU_LOCATION = "" THEN Append(m2, "WU_LOCATION") ELSE m2

\* collectConfig: the Config it returns, or the message it exits with.  The
\* REDIS_DB check comes before the report of the missing variables.
collectConfig(e) ==
    LET db      == Atoi(e.REDIS_DB)
        dbFatal == IF e.REDIS_DB # <<>> /\ db.err
                   THEN panicOnError(AtoiError(e.REDIS_DB), "Error parsing REDIS_DB")
                   ELSE ""
        missing == MissingEnv(e)
        cfg     == [HTTPPort |-> IF e.HTTP_PORT = "" THEN ":8080"
                                 ELSE ":" \o e.HTTP_PORT,
                    RedisAddr |-> e.REDIS_ADDR,
                    RedisDB |-> IF e.REDIS_DB = <<>> THEN "0" ELSE db.val,
                    RedisPassword |-> e.REDIS_PASSWORD,
                    RedisPrefix |-> IF e.REDIS_PREFIX = "" THEN "ph:"
                                    ELSE e.REDIS_PREFIX,
                    WUndergroundKey |-> e.WU_KEY,
                    WUndergroundLocation |-> e.WU_LOCATION]
    IN IF dbFatal # ""
       THEN [config |-> ZeroConfig, fatal |-> dbFatal]
       ELSE IF Len(missing) > 0
       THEN [config |-> ZeroConfig,
             fatal |-> "Environment variables missing: " \o SprintList(missing)]
       ELSE [config |-> cfg, fatal |-> ""]

(***************************************************************************)
(* The upstream body and json.Unmarshal into WUAstronomy.  A body is       *)
(* either syntactically valid JSON carrying the four decimal-string fields *)
(* (a missing field is the empty string) or malformed; Unmarshal leaves    *)
(* the structure zero-valued on malformed input and its error is dropped.  *)
(***************************************************************************)
WUTime(h, m) == [Hour |-> h, Minute |-> m]
ZeroAstronomy == [SunPhase |-> [Sunrise |-> WUTime(<<>>, <<>>),
                                Sunset  |-> WUTime(<<>>, <<>>)]]

\* a complete body, and one whose sunrise hour is missing and whose sunrise
\* minute is not a number
Bodies ==
    { [valid |-> TRUE,  sunrise |-> WUTime(<<"6">>, <<"5", "2">>),
                        sunset  |-> WUTime(<<"1", "9">>, <<"0", "5">>)],
      [valid |-> TRUE,  sunrise |-> WUTime(<<>>, <<"x", "1">>),
                        sunset  |-> WUTime(<<"1", "8">>, <<"4", "4">>)] }

Unmarshal(body) ==
    IF body.valid
    THEN [SunPhase |-> [Sunrise |-> body.sunrise, Sunset |-> body.sunset]]
    ELSE ZeroAstronomy

(***************************************************************************)
(* jsonapi: the media type, MarshalPayload of a SunPhaseRespose and        *)
(* MarshalErrors of one ErrorObject, as the bytes the encoder writes       *)
(* (attributes are a map, so their keys come out sorted; empty ErrorObject *)
(* fields are omitted; the encoder ends the document with a newline).      *)
(* No string of the model needs JSON escaping.                             *)
(***************************************************************************)
MediaType == "application/vnd.api+json"
SniffedType == "text/plain; charset=utf-8"

MarshalPayload(obj) ==
    [err |-> "",
     doc |-> "{\"data\":{\"type\":\"sun_phase\",\"id\":\"" \o obj.ResponseID
             \o "\",\"attributes\":{\"sunrise_h\":" \o obj.SunriseH
             \o ",\"sunrise_m\":" \o obj.SunriseM
             \o ",\"sunset_h\":" \o obj.SunsetH
             \o ",\"sunset_m\":" \o obj.SunsetM \o "}}}\n"]

JsonField(name, value, first) ==
    IF value = "" THEN ""
    ELSE (IF first THEN "" ELSE ",") \o "\"" \o name \o "\":\"" \o value \o "\""

MarshalErrors(e) ==
    LET t == JsonField("title", e.Title, TRUE)
        d == JsonField("detail", e.Detail, t = "")
        s == JsonField("status", e.Status, t = "" /\ d = "")
        c == JsonField("code", e.Code, t = "" /\ d = "" /\ s = "")
    IN "{\"errors\":[{" \o t \o d \o s \o c \o "}]}\n"

(***************************************************************************)
(* http.ResponseWriter.  header is the handler's Content-Type entry;       *)
(* WriteHeader commits the status and the headers as they are at that      *)
(* moment (a second WriteHeader is ignored); the first Write commits 200   *)
(* when no status was written, and sniffs the content type when none was   *)
(* committed.  body is the sequence of documents written.                  *)
(***************************************************************************)
NewResponse ==
    [wroteHeader |-> FALSE, status |-> 0, header |-> "", sentCT |-> "",
     body |-> <<>>]

HeaderSet(w, ct) == [w EXCEPT !.header = ct]

WriteHeader(w, code) ==
    IF w.wroteHeader THEN w
    ELSE [w EXCEPT !.wroteHeader = TRUE, !.status = code, !.sentCT = w.header]

Write(w, s) ==
    LET w1 == WriteHeader(w, 200)
    IN [w1 EXCEPT !.body = Append(@, s),
                  !.sentCT = IF @ = "" THEN SniffedType ELSE @]

(***************************************************************************)
(* makeErrorResponse                                                       *)
(***************************************************************************)
codeTitle(code) ==
    CASE code = 1    -> "Malformed JSON Body"
      [] code = 2201 -> "Missing Required Attribute"
      [] code = 2202 -> "Requested Relationship Not Found"
      [] OTHER       -> ""

statusTitle(status) ==
    CASE status = 400 -> "Bad Request"
      [] status = 401 -> "Unauthorized"
      [] status = 404 -> "Not Found"
      [] status = 405 -> "Method Not Allowed"
      [] status = 406 -> "Not Acceptable"
      [] status = 409 -> "Conflict"
      [] status = 415 -> "Unsupported Media Type"
      [] status = 422 -> "Unprocessable Entity"
      [] status = 500 -> "Internal Server Error"
      [] OTHER        -> ""

ErrorObjectBadStatusTitleOnly(status, detail, code) ==
    [Title  |-> statusTitle(status),
     Detail |-> detail,
     Status |-> ToString(status),
     Code   |-> IF code = 0 THEN "" ELSE ToString(code)]
ErrorObject(status, detail, code) ==
    [Title  |-> IF code = 0 THEN statusTitle(status) ELSE codeTitle(code),
     Detail |-> detail,
     Status |-> ToString(status),
     Code   |-> IF code = 0 THEN "" ELSE ToString(code)]

makeErrorResponse(w, status, detail, code) ==
    Write(HeaderSet(WriteHeader(w, status), MediaType),
          MarshalErrors(ErrorObject(status, detail, code)))

(***************************************************************************)
(* The cache (redis).  An entry carries its value and its expiry; at and   *)
(* by record when and by which request it was written (by = 0: found in    *)
(* Redis at startup); a request's field stored says that the server has    *)
(* executed its SET, and calls lists the calls that have had their effect. *)
(* Get answers redis.Nil for an absent or expired key;                     *)
(* an expired entry stays in the map, where nothing can read it, until it  *)
(* is overwritten.                                                         *)
(***************************************************************************)
TTLHours == 168

RedisLive(c, key, now) == key \in DOMAIN c /\ now < c[key].exp

RedisSetBadNX(c, key, entry) ==
    [k \in DOMAIN c \cup {key} |-> IF k = key /\ k \notin DOMAIN c THEN entry ELSE c[k]]
RedisSet(c, key, entry) ==
    [k \in DOMAIN c \cup {key} |-> IF k = key THEN entry ELSE c[k]]

\* hours since the handler last wrote key, -1 when it never did
WriteAge(c, key, now) ==
    IF key \in DOMAIN c /\ c[key].by # 0 THEN now - c[key].at ELSE 0 - 1

\* var ttl time.Duration = time.Duration(168) * time.Hour; redis.Set(.., ttl)
ExpiryBadOneDay(now) == now + TTLHours \div 7
Expiry(now) == now + TTLHours

(***************************************************************************)
(* handleSunPhase, cut into the pieces between its blocking calls.         *)
(***************************************************************************)
\* the cache-hit branch: set the content type, print the stored string
HitResponseBadReencoded(w, cacheVal) ==
    Write(HeaderSet(w, MediaType), cacheVal \o "\n")
HitResponse(w, cacheVal) == Write(HeaderSet(w, MediaType), cacheVal)

\* the four Atoi calls (their errors are overwritten and never read) and
\* the SunPhaseRespose literal
BuildResponseObj(cacheKey, astronomy) ==
    [ResponseID |-> cacheKey,
     SunriseH   |-> Atoi(astronomy.SunPhase.Sunrise.Hour).val,
     SunriseM   |-> Atoi(astronomy.SunPhase.Sunrise.Minute).val,
     SunsetH    |-> Atoi(astronomy.SunPhase.Sunset.Hour).val,
     SunsetM    |-> Atoi(astronomy.SunPhase.Sunset.Minute).val]

\* from the return of getWUAstronomy to the redis.Set call: a fetch error
\* emits the 500 document and execution continues (there is no return); a
\* MarshalPayload error emits a 500 document and returns
AfterFetchBadParseError(w, cacheKey, astronomy, fetchErr) ==
    LET m == MarshalPayload(BuildResponseObj(cacheKey, astronomy))
        t == astronomy.SunPhase
    IN IF \/ Atoi(t.Sunrise.Hour).err \/ Atoi(t.Sunrise.Minute).err
          \/ Atoi(t.Sunset.Hour).err  \/ Atoi(t.Sunset.Minute).err
       THEN [resp |-> makeErrorResponse(w, 500, "malformed upstream body", 0),
             payload |-> "", returned |-> TRUE]
       ELSE [resp |-> w, payload |-> m.doc, returned |-> FALSE]
AfterFetch(w, cacheKey, astronomy, fetchErr) ==
    LET w1  == IF fetchErr # "" THEN makeErrorResponse(w, 500, fetchErr, 0)
               ELSE w
        m   == MarshalPayload(BuildResponseObj(cacheKey, astronomy))
    IN IF m.err # ""
       THEN [resp |-> makeErrorResponse(w1, 500, m.err, 0), payload |-> "",
             returned |-> TRUE]
       ELSE [resp |-> w1, payload |-> m.doc, returned |-> FALSE]

\* after redis.Set: set the content type, print the payload
SendPayloadBadPrintln(w, payload) ==
    Write(HeaderSet(w, MediaType), payload \o "\n")
SendPayload(w, payload) == Write(HeaderSet(w, MediaType), payload)

\* the non-GET branch
MethodNotAllowedBadStatus(w, method) == makeErrorResponse(w, 400, method, 0)
MethodNotAllowed(w, method) == makeErrorResponse(w, 405, method, 0)

(***************************************************************************)
(* State.                                                                  *)
(***************************************************************************)
NewRequest ==
    [pc |-> "new", method |-> "", cacheKey |-> "", day |-> 0,
     read |-> "none", age |-> 0 - 1, hitBy |-> 0,
     fetchErr |-> "", payload |-> "", stored |-> FALSE, write |-> "none",
     calls |-> <<>>, resp |-> NewResponse]

InitCaches(prefix, w) ==
    { <<>>,
      [k \in {CacheKey(prefix, Today(w))} |->
          [val |-> ForeignValue, exp |-> ForeignTTL, at |-> 0, by |-> 0]] }

\* when the process is started, by the prefix its environment selects
StartOf(e) ==
    CHOOSE s \in Starts :
        s.prefix = IF e.REDIS_PREFIX = "" THEN "ph:" ELSE e.REDIS_PREFIX

\* main before its first statement; errCall is not used by the process
NewBoot == [pong |-> "", listening |-> FALSE, fatal |-> ""]
NoErrCall == [status |-> 0, detail |-> "", code |-> 0, applied |-> FALSE,
              obj |-> [Title |-> "", Detail |-> "", Status |-> "", Code |-> ""],
              resp |-> NewResponse]

Init ==
    /\ environ \in Environments
    /\ boot = NewBoot
    /\ errCall = NoErrCall
    /\ proc = "collect"
    /\ config = ZeroConfig
    /\ wall = StartOf(environ).hour
    /\ clock = 0
    /\ nAdjust = 0
    /\ cache \in InitCaches(StartOf(environ).prefix, wall)
    /\ req = [r \in Requests |-> NewRequest]

(***************************************************************************)
(* Actions.                                                                *)
(***************************************************************************)
\* collectConfig returns the Config
CollectConfigOK ==
    /\ proc = "collect"
    /\ collectConfig(environ).fatal = ""
    /\ config' = collectConfig(environ).config
    /\ proc' = "ping"
    /\ UNCHANGED <<environ, boot, errCall, clock, wall, nAdjust, cache, req>>

\* collectConfig exits: log.Fatal of the missing variables, or panicOnError
\* of the REDIS_DB parse error
CollectConfigFatal ==
    /\ proc = "collect"
    /\ collectConfig(environ).fatal # ""
    /\ boot' = [boot EXCEPT !.fatal = collectConfig(environ).fatal]
    /\ proc' = "exited"
    /\ UNCHANGED <<environ, errCall, config, clock, wall, nAdjust, cache, req>>

\* client.Ping() answers: main goes on to register the route
PingOK ==
    /\ proc = "ping"
    /\ boot' = [boot EXCEPT !.pong = "PONG"]
    /\ proc' = "listen"
    /\ UNCHANGED <<environ, errCall, config, clock, wall, nAdjust, cache, req>>

\* client.Ping() fails: panicOnError exits the process
PingFailBadIgnored(e) ==
    /\ proc = "ping"
    /\ proc' = "listen"
    /\ UNCHANGED <<environ, boot, errCall, config, clock, wall, nAdjust, cache, req>>
PingFail(e) ==
    /\ proc = "ping"
    /\ boot' = [boot EXCEPT !.fatal = panicOnError(e, "Failed to connect to Redis")]
    /\ proc' = "exited"
    /\ UNCHANGED <<environ, errCall, config, clock, wall, nAdjust, cache, req>>

\* http.HandleFunc, then ListenAndServe binds the port and serves
Listen ==
    /\ proc = "listen"
    /\ boot' = [boot EXCEPT !.listening = TRUE]
    /\ proc' = "running"
    /\ UNCHANGED <<environ, errCall, config, clock, wall, nAdjust, cache, req>>

\* ListenAndServe returns at once (the port cannot be bound): its error is
\* dropped, main logs "Ready" and returns
ListenFail ==
    /\ proc = "listen"
    /\ proc' = "exited"
    /\ UNCHANGED <<environ, boot, errCall, config, clock, wall, nAdjust, cache, req>>

\* the redis calls that have returned an error other than redis.Nil
RedisErrors ==
    Cardinality({r \in Requests : req[r].read = "error"})
        + Cardinality({r \in Requests : req[r].write = "error"})

\* the requests are numbered in the order in which the transport
\* dispatches them: r is the next one when it has not arrived and every
\* request before it has
NextToArrive(r) ==
    /\ req[r].pc = "new"
    /\ \A q \in Requests : q < r => req[q].pc # "new"

\* a request with a method other than GET arrives: the else branch
ReceiveOther(r, m) ==
    /\ proc = "running"
    /\ NextToArrive(r)
    /\ m # "GET"
    /\ req' = [req EXCEPT ![r].pc = "done", ![r].method = m,
                          ![r].day = wall \div 24,
                          ![r].resp = MethodNotAllowed(@, m)]
    /\ UNCHANGED <<environ, boot, errCall, proc, config, clock, wall, nAdjust, cache>>

\* a GET arrives: time.Now() and the cache key; the redis Get is next
ReceiveGetBadGlobalLock(r) ==
    /\ proc = "running"
    /\ NextToArrive(r)
    /\ \A q \in Requests : req[q].pc \in {"new", "done"}
    /\ req' = [req EXCEPT ![r].pc = "get", ![r].method = "GET",
                          ![r].day = wall \div 24,
                          ![r].cacheKey = CacheKey(config.RedisPrefix, Today(wall))]
    /\ UNCHANGED <<environ, boot, errCall, proc, config, clock, wall, nAdjust, cache>>
ReceiveGet(r) ==
    /\ proc = "running"
    /\ NextToArrive(r)
    /\ req' = [req EXCEPT ![r].pc = "get", ![r].method = "GET",
                          ![r].day = wall \div 24,
                          ![r].cacheKey = CacheKey(config.RedisPrefix, Today(wall))]
    /\ UNCHANGED <<environ, boot, errCall, proc, config, clock, wall, nAdjust, cache>>

\* redis Get returns the value (err == nil): respond with it and return
CacheGetHit(r) ==
    /\ proc = "running"
    /\ req[r].pc = "get"
    /\ RedisLive(cache, req[r].cacheKey, clock)
    /\ LET e == cache[req[r].cacheKey]
       IN req' = [req EXCEPT ![r].pc = "done", ![r].read = "hit",
                             ![r].age = WriteAge(cache, req[r].cacheKey, clock),
                             ![r].hitBy = e.by,
                             ![r].calls = Append(@, "read"),
                             ![r].resp = HitResponse(@, e.val)]
    /\ UNCHANGED <<environ, boot, errCall, proc, config, clock, wall, nAdjust, cache>>

\* redis Get returns redis.Nil: go on to the upstream fetch
CacheGetMiss(r) ==
    /\ proc = "running"
    /\ req[r].pc = "get"
    /\ ~RedisLive(cache, req[r].cacheKey, clock)
    /\ req' = [req EXCEPT ![r].pc = "fetch", ![r].read = "miss",
                          ![r].age = WriteAge(cache, req[r].cacheKey, clock),
                          ![r].calls = Append(@, "read")]
    /\ UNCHANGED <<environ, boot, errCall, proc, config, clock, wall, nAdjust, cache>>

\* redis Get fails with another error: it is logged, go on to the fetch
CacheGetErrorBadRetry(r) ==
    /\ proc = "running"
    /\ RedisErrors < MaxRedisErrors
    /\ req[r].pc = "get"
    /\ Len(req[r].calls) < 2
    /\ req' = [req EXCEPT ![r].read = "error",
                          ![r].calls = Append(@, "read")]
    /\ UNCHANGED <<environ, boot, errCall, proc, config, clock, wall, nAdjust, cache>>
CacheGetErrorBadFails(r) ==
    /\ proc = "running"
    /\ RedisErrors < MaxRedisErrors
    /\ req[r].pc = "get"
    /\ req' = [req EXCEPT ![r].pc = "done", ![r].read = "error",
                          ![r].calls = Append(@, "read"),
                          ![r].resp = makeErrorResponse(@, 500, "redis: connection refused", 0)]
    /\ UNCHANGED <<environ, boot, errCall, proc, config, clock, wall, nAdjust, cache>>
CacheGetError(r) ==
    /\ proc = "running"
    /\ RedisErrors < MaxRedisErrors
    /\ req[r].pc = "get"
    /\ req' = [req EXCEPT ![r].pc = "fetch", ![r].read = "error",
                          ![r].age = WriteAge(cache, req[r].cacheKey, clock),
                          ![r].calls = Append(@, "read")]
    /\ UNCHANGED <<environ, boot, errCall, proc, config, clock, wall, nAdjust, cache>>

\* getWUAstronomy returns a body: Unmarshal, build and marshal the payload
FetchOK(r, body) ==
    /\ proc = "running"
    /\ req[r].pc = "fetch"
    /\ LET a == AfterFetch(req[r].resp, req[r].cacheKey, Unmarshal(body), "")
       IN req' = [req EXCEPT ![r].pc = IF a.returned THEN "done" ELSE "set",
                             ![r].payload = a.payload,
                             ![r].calls = Append(@, "fetch"),
                             ![r].resp = a.resp]
    /\ UNCHANGED <<environ, boot, errCall, proc, config, clock, wall, nAdjust, cache>>

\* http.Get or ReadAll fails: getWUApiRepose calls log.Fatal, which exits
\* the process before anything returns to the handler
FetchFail(r, e) ==
    /\ proc = "running"
    /\ req[r].pc = "fetch"
    /\ req' = [req EXCEPT ![r].fetchErr = e, ![r].calls = Append(@, "fetch")]
    /\ proc' = "exited"
    /\ boot' = [boot EXCEPT !.fatal = e]
    /\ UNCHANGED <<environ, errCall, config, clock, wall, nAdjust, cache>>

\* the Redis server executes the SET of request r, which is still inside
\* its redis Set call: the entry is readable before the call returns
CacheSetApplyBadRecomputed(r) ==
    /\ proc = "running"
    /\ req[r].pc = "set"
    /\ cache' = RedisSet(cache, CacheKey(config.RedisPrefix, Today(wall)),
                         [val |-> req[r].payload, exp |-> Expiry(clock),
                          at |-> clock, by |-> r])
    /\ req' = [req EXCEPT ![r].pc = "stored", ![r].stored = TRUE,
                          ![r].calls = Append(@, "write")]
    /\ UNCHANGED <<environ, boot, errCall, proc, config, clock, wall, nAdjust>>
CacheSetApply(r) ==
    /\ proc = "running"
    /\ req[r].pc = "set"
    /\ cache' = RedisSet(cache, req[r].cacheKey,
                         [val |-> req[r].payload, exp |-> Expiry(clock),
                          at |-> clock, by |-> r])
    /\ req' = [req EXCEPT ![r].pc = "stored", ![r].stored = TRUE,
                          ![r].calls = Append(@, "write")]
    /\ UNCHANGED <<environ, boot, errCall, proc, config, clock, wall, nAdjust>>

\* redis Set returns nil (the server's reply has arrived), then the payload
\* is sent
CacheSetOK(r) ==
    /\ proc = "running"
    /\ req[r].pc = "stored"
    /\ req' = [req EXCEPT ![r].pc = "done", ![r].write = "ok",
                          ![r].resp = SendPayload(@, req[r].payload)]
    /\ UNCHANGED <<environ, boot, errCall, proc, config, clock, wall, nAdjust, cache>>

\* redis Set returns an error, either with the SET never executed (the
\* server is not reached or refuses it) or after the server executed it
\* (the reply is lost or late); the error is logged, then the payload is
\* sent
CacheSetFailBadFails(r) ==
    /\ proc = "running"
    /\ RedisErrors < MaxRedisErrors
    /\ req[r].pc \in {"set", "stored"}
    /\ req' = [req EXCEPT ![r].pc = "done", ![r].write = "error",
                          ![r].calls = IF req[r].stored THEN @ ELSE Append(@, "write"),
                          ![r].resp = makeErrorResponse(@, 500, "redis: connection refused", 0)]
    /\ UNCHANGED <<environ, boot, errCall, proc, config, clock, wall, nAdjust, cache>>
CacheSetFail(r) ==
    /\ proc = "running"
    /\ RedisErrors < MaxRedisErrors
    /\ req[r].pc \in {"set", "stored"}
    /\ req' = [req EXCEPT ![r].pc = "done", ![r].write = "error",
                          ![r].calls = IF req[r].stored THEN @ ELSE Append(@, "write"),
                          ![r].resp = SendPayload(@, req[r].payload)]
    /\ UNCHANGED <<environ, boot, errCall, proc, config, clock, wall, nAdjust, cache>>

\* time passes
Tick(d) ==
    /\ proc = "running"
    /\ clock + d <= MaxClock
    /\ clock' = clock + d
    /\ wall' = wall + d
    /\ UNCHANGED <<environ, boot, errCall, proc, config, nAdjust, cache, req>>

\* the host's wall clock is set back, to no earlier than the day the
\* process was started on; elapsed time is not affected
ClockSetBack(d) ==
    /\ proc = "running"
    /\ nAdjust < MaxAdjust
    /\ d <= clock
    /\ (wall - d) \div 24 >= StartOf(environ).hour \div 24
    /\ wall' = wall - d
    /\ nAdjust' = nAdjust + 1
    /\ UNCHANGED <<environ, boot, errCall, proc, config, clock, cache, req>>

Next ==
    \/ CollectConfigOK
    \/ CollectConfigFatal
    \/ PingOK
    \/ \E e \in PingErrors : PingFail(e)
    \/ Listen
    \/ ListenFail
    \/ \E r \in Requests, m \in Methods : ReceiveOther(r, m)
    \/ \E r \in Requests : ReceiveGet(r)
    \/ \E r \in Requests : CacheGetHit(r)
    \/ \E r \in Requests : CacheGetMiss(r)
    \/ \E r \in Requests : CacheGetError(r)
    \/ \E r \in Requests, b \in Bodies : FetchOK(r, b)
    \/ \E r \in Requests, e \in UpstreamErrors : FetchFail(r, e)
    \/ \E r \in Requests : CacheSetApply(r)
    \/ \E r \in Requests : CacheSetOK(r)
    \/ \E r \in Requests : CacheSetFail(r)
    \/ \E d \in TickSteps : Tick(d)
    \/ \E d \in BackSteps : ClockSetBack(d)

Spec == Init /\ [][Next]_vars

(***************************************************************************)
(* The process started in the default environment with nothing missing,    *)
(* Redis answering the ping and holding an entry for the day, the port     *)
(* free, on a host whose clock is never set back: the requests and the     *)
(* passage of time only.                                                   *)
(***************************************************************************)
InitServe ==
    /\ environ = CHOOSE e \in Environments :
                     /\ e.REDIS_ADDR # "" /\ e.WU_KEY # "" /\ e.WU_LOCATION # ""
                     /\ e.REDIS_DB = <<>>
    /\ boot = NewBoot
    /\ errCall = NoErrCall
    /\ proc = "collect"
    /\ config = ZeroConfig
    /\ wall = StartOf(environ).hour
    /\ clock = 0
    /\ nAdjust = 0
    /\ cache \in {c \in InitCaches(StartOf(environ).prefix, wall) : DOMAIN c # {}}
    /\ req = [r \in Requests |-> NewRequest]

NextServe ==
    \/ CollectConfigOK
    \/ PingOK
    \/ Listen
    \/ \E r \in Requests, m \in Methods : ReceiveOther(r, m)
    \/ \E r \in Requests : ReceiveGet(r)
    \/ \E r \in Requests : CacheGetHit(r)
    \/ \E r \in Requests : CacheGetMiss(r)
    \/ \E r \in Requests : CacheGetError(r)
    \/ \E r \in Requests, b \in Bodies : FetchOK(r, b)
    \/ \E r \in Requests, e \in UpstreamErrors : FetchFail(r, e)
    \/ \E r \in Requests : CacheSetApply(r)
    \/ \E r \in Requests : CacheSetOK(r)
    \/ \E r \in Requests : CacheSetFail(r)
    \/ \E d \in TickSteps : Tick(d)

SpecServe == InitServe /\ [][NextServe]_vars

(***************************************************************************)
(* The same process when every upstream answer has a malformed body: one  *)
(* that is not JSON at all (an HTML error page), a JSON body whose sunrise *)
(* hour and sunset minute are missing and whose sunrise minute is not a    *)
(* number, and a JSON body whose sunset hour is a number outside the int   *)
(* range and whose sunrise hour is such a number, negative, followed by a  *)
(* letter.                                                                 *)
(***************************************************************************)
MalformedBodies ==
    { [valid |-> FALSE, sunrise |-> WUTime(<<>>, <<>>),
                        sunset  |-> WUTime(<<>>, <<>>)],
      [valid |-> TRUE,  sunrise |-> WUTime(<<>>, <<"5", "x">>),
                        sunset  |-> WUTime(<<"1", "9">>, <<>>)],
      [valid |-> TRUE,  sunrise |-> WUTime(<<"-">> \o TwentyNinesX, <<"5", "2">>),
                        sunset  |-> WUTime(TwentyNines, <<"0", "5">>)] }

NextMalformed ==
    \/ CollectConfigOK
    \/ PingOK
    \/ Listen
    \/ \E r \in Requests, m \in Methods : ReceiveOther(r, m)
    \/ \E r \in Requests : ReceiveGet(r)
    \/ \E r \in Requests : CacheGetHit(r)
    \/ \E r \in Requests : CacheGetMiss(r)
    \/ \E r \in Requests : CacheGetError(r)
    \/ \E r \in Requests, b \in MalformedBodies : FetchOK(r, b)
    \/ \E r \in Requests, e \in UpstreamErrors : FetchFail(r, e)
    \/ \E r \in Requests : CacheSetApply(r)
    \/ \E r \in Requests : CacheSetOK(r)
    \/ \E r \in Requests : CacheSetFail(r)
    \/ \E d \in TickSteps : Tick(d)

SpecMalformed == InitServe /\ [][NextMalformed]_vars

(***************************************************************************)
(* makeErrorResponse on its own: one call on a fresh ResponseWriter with   *)
(* each status, detail and code of the sets below (statuses and codes of   *)
(* the two tables, and some that are in neither; every status is one that  *)
(* WriteHeader accepts).                                                   *)
(***************************************************************************)
ErrStatuses == {200, 400, 401, 404, 405, 406, 409, 415, 418, 422, 500, 503}
ErrCodes == {0, 1, 2, 405, 2201, 2202}
ErrDetails == {"", "POST", "dial tcp: connection refused"}

InitErr ==
    /\ environ = CHOOSE e \in Environments :
                     /\ e.REDIS_ADDR # "" /\ e.WU_KEY # "" /\ e.WU_LOCATION # ""
                     /\ e.REDIS_DB = <<>>
    /\ boot = NewBoot
    /\ \E st \in ErrStatuses, dt \in ErrDetails, cd \in ErrCodes :
          errCall = [NoErrCall EXCEPT !.status = st, !.detail = dt, !.code = cd]
    /\ proc = "collect"
    /\ config = ZeroConfig
    /\ wall = StartOf(environ).hour
    /\ clock = 0
    /\ nAdjust = 0
    /\ cache = <<>>
    /\ req = [r \in Requests |-> NewRequest]

\* the call makeErrorResponse(response, status, detail, code)
ApplyMakeErrorResponse ==
    /\ ~errCall.applied
    /\ errCall' = [errCall EXCEPT
                      !.applied = TRUE,
                      !.obj = ErrorObject(errCall.status, errCall.detail, errCall.code),
                      !.resp = makeErrorResponse(@, errCall.status, errCall.detail,
                                                 errCall.code)]
    /\ UNCHANGED <<environ, boot, proc, config, clock, wall, nAdjust, cache, req>>

NextErr == ApplyMakeErrorResponse

SpecErr == InitErr /\ [][NextErr]_vars

(***************************************************************************)
(* Properties.                                                             *)
(***************************************************************************)
KeyWindow == 31      \* days around a request's date compared with its key

IsPrefixOf(s, t) == Len(s) <= Len(t) /\ \A i \in 1..Len(s) : s[i] = t[i]
Count(s, x) == Cardinality({i \in 1..Len(s) : s[i] = x})
CallOrder == <<"read", "fetch", "write">>

\* the string the entry held that request r was served from
StoredAtHit(r) ==
    IF req[r].hitBy = 0 THEN ForeignValue ELSE req[req[r].hitBy].payload

\* C1: a GET request whose cache read succeeds returns the stored string
\* unmodified as its body, and makes no upstream call and no cache write.
C1_HitVerbatim ==
    \A r \in Requests :
        req[r].read = "hit" =>
            /\ req[r].pc = "done"
            /\ req[r].resp.body = <<StoredAtHit(r)>>
            /\ req[r].calls = <<"read">>
            /\ req[r].fetchErr = "" /\ req[r].payload = ""
            /\ req[r].write = "none"
            /\ \A k \in DOMAIN cache : cache[k].by # r

C1_Witness ==
    \E r \in Requests :
        /\ req[r].read = "hit" /\ req[r].hitBy # 0
        /\ req[r].pc = "done"
        /\ req[r].resp.body = <<req[req[r].hitBy].payload>>

\* the error document of makeErrorResponse(status, detail, 0) for a listed
\* status, written out
ErrorDoc(title, detail, status) ==
    "{\"errors\":[{\"title\":\"" \o title \o "\",\"detail\":\"" \o detail
        \o "\",\"status\":\"" \o status \o "\"}]}\n"

\* C2: when the upstream call of a GET request returns a connection error,
\* the request is answered with status 500 and an error document whose
\* detail is the error's message, the handler stops, and no cache write is
\* made.
C2_UpstreamFailureAnswered ==
    \A r \in Requests :
        req[r].fetchErr # "" =>
            /\ req[r].resp.status = 500
            /\ req[r].resp.body =
                   <<ErrorDoc("Internal Server Error", req[r].fetchErr, "500")>>
            /\ req[r].pc = "done"
            /\ req[r].write = "none"
            /\ Count(req[r].calls, "write") = 0

\* what holds of the calls of every request, GET or not: at most one cache
\* read, one upstream call and one cache write, in that order, and exactly
\* one upstream call once a missing request is past its fetch
CallsInOrder(r) ==
    /\ IsPrefixOf(req[r].calls, CallOrder)
    /\ (req[r].read \in {"miss", "error"}
            /\ (req[r].pc \in {"set", "stored", "done"} \/ req[r].fetchErr # "")
        => /\ Count(req[r].calls, "fetch") = 1
           /\ Count(req[r].calls, "write") <= 1)

\* C3 as stated: for a GET request that misses, exactly one upstream call
\* and at most one cache write; over any request exactly one cache read, at
\* most one upstream call and one cache write, read before fetch before
\* write.
C3_Original ==
    \A r \in Requests :
        /\ CallsInOrder(r)
        /\ (req[r].pc = "done" => Count(req[r].calls, "read") = 1)

\* C3 as amended: the same, with exactly one cache read over any GET
\* request that has returned, and no call at all over a non-GET request.
C3_CallCounts ==
    \A r \in Requests :
        /\ CallsInOrder(r)
        /\ (req[r].pc = "done" /\ req[r].method = "GET"
                => Count(req[r].calls, "read") = 1)
        /\ (req[r].pc = "done" /\ req[r].method # "GET"
                => req[r].calls = <<>>)

C3_Witness ==
    /\ \E r \in Requests :
        /\ req[r].pc = "done" /\ req[r].read = "miss"
        /\ req[r].calls = CallOrder
    /\ \E r \in Requests :
        /\ req[r].pc = "done" /\ req[r].method = "POST"
        /\ req[r].calls = <<>>

\* C4: the document a missing request writes to the cache is the byte
\* string it returns, and a later request that hits that entry returns a
\* byte-identical body: an entry written by r holds r's document under r's
\* key, r's body once it has answered is that document, and the body of a
\* request served from r's entry is that document, whether r has answered
\* already or is still inside its redis Set call.
C4_RoundTrip ==
    \A r \in Requests :
        /\ \A k \in DOMAIN cache :
               cache[k].by = r =>
                   /\ req[r].stored
                   /\ k = req[r].cacheKey /\ cache[k].val = req[r].payload
        /\ (req[r].stored /\ req[r].pc = "done" =>
                req[r].resp.body = <<req[r].payload>>)
        /\ (req[r].read = "hit" /\ req[r].hitBy # 0 =>
                /\ req[req[r].hitBy].stored
                /\ req[req[r].hitBy].cacheKey = req[r].cacheKey
                /\ req[r].resp.body = <<req[req[r].hitBy].payload>>
                /\ (req[req[r].hitBy].pc = "done" =>
                       req[r].resp.body = req[req[r].hitBy].resp.body))

C4_Witness ==
    \E r, h \in Requests :
        /\ r # h
        /\ req[r].write = "ok" /\ req[r].read = "miss"
        /\ req[h].read = "hit" /\ req[h].hitBy = r
        /\ Len(req[h].resp.body) = 1
        /\ req[h].resp.body[1] = cache[req[r].cacheKey].val

\* a request was served request w's entry while w was still inside its
\* redis Set call
HitBeforeWriterAnswers ==
    \E w, h \in Requests :
        /\ req[w].pc = "stored" /\ req[w].resp = NewResponse
        /\ req[h].read = "hit" /\ req[h].hitBy = w /\ req[h].pc = "done"
        /\ req[h].resp.body = <<req[w].payload>>

\* the process has exited while request w was inside its redis Set call,
\* its entry written
ExitedBeforeWriterAnswers ==
    \E w \in Requests :
        /\ proc = "exited" /\ req[w].pc = "stored"
        /\ req[w].cacheKey \in DOMAIN cache /\ cache[req[w].cacheKey].by = w

\* the documents a fetch can produce for a key, one for each of Bodies,
\* written out
FreshDocs(key) ==
    { "{\"data\":{\"type\":\"sun_phase\",\"id\":\"" \o key
          \o "\",\"attributes\":{\"sunrise_h\":6,\"sunrise_m\":52,\"sunset_h\":19,\"sunset_m\":5}}}\n",
      "{\"data\":{\"type\":\"sun_phase\",\"id\":\"" \o key
          \o "\",\"attributes\":{\"sunrise_h\":0,\"sunrise_m\":0,\"sunset_h\":18,\"sunset_m\":44}}}\n" }

\* C5: a cache read that fails with an error other than "not found" is
\* treated as a miss: the handler goes on to the upstream fetch and, when
\* the fetch succeeds, answers 200 with the freshly built document; the
\* read error never produces an error response.
C5_ReadErrorIsMiss ==
    \A r \in Requests :
        req[r].read = "error" =>
            /\ req[r].pc \in {"fetch", "set", "stored", "done"}
            /\ req[r].resp.status \in {0, 200}
            /\ (req[r].pc = "fetch" => req[r].resp = NewResponse)
            /\ (req[r].pc = "done" =>
                    /\ Count(req[r].calls, "fetch") = 1
                    /\ req[r].resp.status = 200
                    /\ req[r].payload \in FreshDocs(req[r].cacheKey)
                    /\ req[r].resp.body = <<req[r].payload>>)

C5_Witness ==
    \E r \in Requests :
        /\ req[r].read = "error" /\ req[r].pc = "done"
        /\ req[r].resp.status = 200
        /\ Len(req[r].resp.body) = 1
        /\ RedisLive(cache, req[r].cacheKey, clock)
        /\ cache[req[r].cacheKey].by # r
        /\ cache[req[r].cacheKey].val # req[r].resp.body[1]

\* C6 as stated: a cache write failure does not fail the request: it is
\* answered with status 200 and the serialized document, and the cache is
\* left as it was: the server has not executed the request's SET.
C6_Original ==
    \A r \in Requests :
        req[r].write = "error" =>
            /\ req[r].pc = "done"
            /\ req[r].resp.status = 200
            /\ req[r].resp.body = <<req[r].payload>>
            /\ ~req[r].stored

\* C6, amended: a cache write failure does not fail the request: it is
\* answered with status 200 and the serialized document, and the step in
\* which the error is returned leaves the cache unchanged.  When the server
\* never executed the SET, the cache holds no entry of the request.  When
\* the server executed it before the error was returned, that execution
\* stored the request's document under the request's key with the 168-hour
\* TTL, and when the error is returned the key holds that entry or the
\* entry with which another request's SET has replaced it since.
C6_WriteFailureIgnored ==
    [][\A r \in Requests :
          /\ (~req[r].stored /\ req'[r].stored =>
                 /\ req[r].cacheKey \in DOMAIN cache'
                 /\ cache'[req[r].cacheKey] =
                        [val |-> req[r].payload, exp |-> clock + 168,
                         at |-> clock, by |-> r]
                 /\ req'[r].write = "none")
          /\ (req[r].write = "none" /\ req'[r].write = "error" =>
                 /\ req[r].pc \in {"set", "stored"}
                 /\ cache' = cache
                 /\ req'[r].stored = req[r].stored
                 /\ req'[r].pc = "done"
                 /\ req'[r].resp.status = 200
                 /\ req[r].payload \in FreshDocs(req[r].cacheKey)
                 /\ req'[r].resp.body = <<req[r].payload>>
                 /\ (~req[r].stored => \A k \in DOMAIN cache : cache[k].by # r)
                 /\ (req[r].stored =>
                        /\ req[r].cacheKey \in DOMAIN cache
                        /\ LET e == cache[req[r].cacheKey]
                           IN /\ e.by # 0
                              /\ e.exp = e.at + 168
                              /\ req[e.by].stored
                              /\ req[e.by].cacheKey = req[r].cacheKey
                              /\ e.val = req[e.by].payload))]_vars

\* the redis Set of a request returned an error with the SET never
\* executed: the request answered 200 with its document, which is not in
\* the cache
C6_Witness ==
    \E r \in Requests :
        /\ req[r].write = "error" /\ req[r].pc = "done"
        /\ req[r].calls = <<"read", "fetch", "write">>
        /\ req[r].resp.status = 200
        /\ req[r].resp.body = <<req[r].payload>>
        /\ ~req[r].stored
        /\ \A k \in DOMAIN cache : cache[k].by # r /\ cache[k].val # req[r].payload

\* a request's redis Set returned an error after the server executed it,
\* and by then another request's SET had replaced its entry
WriteFailedAndReplaced ==
    \E r, q \in Requests :
        /\ r # q /\ req[r].cacheKey = req[q].cacheKey
        /\ req[r].write = "error" /\ req[r].pc = "done" /\ req[r].stored
        /\ req[r].resp.body = <<req[r].payload>>
        /\ req[q].stored /\ req[q].payload # req[r].payload
        /\ cache[req[r].cacheKey].by = q
        /\ cache[req[r].cacheKey].val = req[q].payload

\* a request whose redis Set returned an error has answered 200 while its
\* document is in the cache
WriteFailedButStored ==
    \E r \in Requests :
        /\ req[r].write = "error" /\ req[r].pc = "done" /\ req[r].stored
        /\ req[r].resp.status = 200
        /\ RedisLive(cache, req[r].cacheKey, clock)
        /\ cache[req[r].cacheKey].by = r
        /\ cache[req[r].cacheKey].val = req[r].payload

\* C7: a request whose method is not GET is answered with status 405 and
\* an error document whose detail is the received method, and causes no
\* cache read, no upstream call and no cache write.
C7_MethodNotAllowed ==
    \A r \in Requests :
        req[r].method \notin {"", "GET"} =>
            /\ req[r].pc = "done"
            /\ req[r].resp.status = 405
            /\ req[r].resp.body =
                   <<ErrorDoc("Method Not Allowed", req[r].method, "405")>>
            /\ req[r].calls = <<>>
            /\ req[r].read = "none" /\ req[r].write = "none"
            /\ \A k \in DOMAIN cache : cache[k].by # r

C7_Witness ==
    \E r \in Requests :
        /\ req[r].method = "POST" /\ req[r].pc = "done"
        /\ req[r].resp.status = 405
        /\ req[r].resp.body =
               <<"{\"errors\":[{\"title\":\"Method Not Allowed\",\"detail\":\"POST\",\"status\":\"405\"}]}\n">>

\* the day numbers within KeyWindow days of day d
DaysAround(d) == (d - KeyWindow)..(d + KeyWindow)

\* C8: the cache key is a pure function of (prefix, local date), equal to
\* prefix + "weather:sun_phase:" + year + "-" + month name + "-" + day:
\* requests with the same prefix on the same day compute the same key, and
\* requests on different days compute different keys.
C8_CacheKey ==
    \A r \in Requests :
        req[r].cacheKey # "" =>
            /\ (config.RedisPrefix = "ph:"
                    /\ req[r].day = 19797      \* 2024-03-15
                => req[r].cacheKey = "ph:weather:sun_phase:2024-March-15")
            /\ (config.RedisPrefix = "test:"
                    /\ req[r].day = 19729      \* 2024-01-07
                => req[r].cacheKey = "test:weather:sun_phase:2024-January-7")
            /\ (config.RedisPrefix = "test:"
                    /\ req[r].day = 19722      \* 2023-12-31
                => req[r].cacheKey = "test:weather:sun_phase:2023-December-31")
            /\ \A q \in Requests :
                   req[q].cacheKey # "" =>
                       (req[q].day = req[r].day <=> req[q].cacheKey = req[r].cacheKey)
            /\ (req[r].pc = "get" =>
                    \A d \in DaysAround(req[r].day) :
                        d = req[r].day
                        <=> CacheKey(config.RedisPrefix, CivilFromDays(d)) = req[r].cacheKey)

C8_Witness ==
    \E r, q \in Requests :
        /\ req[r].cacheKey = "ph:weather:sun_phase:2024-March-15"
        /\ req[q].cacheKey = "ph:weather:sun_phase:2024-March-22"
        /\ req[q].day = req[r].day + 7

\* C9: every cache write of the handler sets a TTL of exactly 168 hours
\* counted from that write; an entry is served as a hit only while fewer
\* than 168 hours have passed since its last write, and a request for the
\* key after expiry is a miss that fetches upstream again.
C9_TTL ==
    /\ \A k \in DOMAIN cache :
           cache[k].by # 0 => cache[k].exp = cache[k].at + 168
    /\ \A r \in Requests :
           /\ (req[r].read = "hit" /\ req[r].hitBy # 0
                   => 0 <= req[r].age /\ req[r].age < 168)
           /\ (req[r].read = "miss" => req[r].age = 0 - 1 \/ req[r].age >= 168)
           /\ (req[r].age >= 168 =>
                   /\ req[r].read \in {"miss", "error"}
                   /\ req[r].pc \in {"fetch", "set", "stored", "done"}
                   /\ (req[r].pc \in {"set", "stored", "done"}
                           => Count(req[r].calls, "fetch") = 1))

C9_Witness ==
    \E r, q \in Requests :
        /\ r # q
        /\ req[q].write = "ok" /\ req[r].cacheKey = req[q].cacheKey
        /\ req[r].age = 168 /\ req[r].read = "miss"
        /\ req[r].pc = "done" /\ req[r].write = "ok"
        /\ cache[req[r].cacheKey].by = r
        /\ cache[req[r].cacheKey].exp = clock + 168

\* a hit on an entry written 167 hours earlier
HitAtLastHour ==
    \E r \in Requests : req[r].read = "hit" /\ req[r].age = 167

\* C10: every request that ends in failure receives exactly one error
\* document with the matching status; no request receives more than one
\* document, nor a failure with no body at all.
C10_FailuresEnveloped ==
    \A r \in Requests :
        /\ Len(req[r].resp.body) <= 1
        /\ (req[r].method \notin {"", "GET"} =>
                /\ req[r].resp.status = 405
                /\ req[r].resp.body =
                       <<ErrorDoc("Method Not Allowed", req[r].method, "405")>>)
        /\ (req[r].fetchErr # "" =>
                /\ req[r].resp.status = 500
                /\ Len(req[r].resp.body) = 1)
        /\ (proc = "exited" => req[r].pc \in {"new", "done"})

\* C11: makeErrorResponse delivers the given status and the standard
\* content type: the Content-Type header is set before the status line is
\* committed, so the client of every error response sees both.
C11_ErrorContentType ==
    \A r \in Requests :
        req[r].resp.status >= 400 =>
            /\ req[r].resp.status \in {405, 500}
            /\ req[r].resp.sentCT = MediaType

\* the required variables that are unset, in the order of RequiredEnv
UnsetRequired(e) == SelectSeq(RequiredEnv, LAMBDA n : e[n] = "")

\* collectConfig has ended the process: no Config was ever returned
ConfigFailed == proc = "exited" /\ config = ZeroConfig

\* the Config of an environment in which nothing required is missing
ConfigPopulated ==
    /\ config.RedisAddr = environ.REDIS_ADDR /\ config.RedisAddr # ""
    /\ config.WUndergroundKey = environ.WU_KEY /\ config.WUndergroundKey # ""
    /\ config.WUndergroundLocation = environ.WU_LOCATION
    /\ config.WUndergroundLocation # ""
    /\ config.RedisPassword = environ.REDIS_PASSWORD
    /\ config.HTTPPort = (IF environ.HTTP_PORT = "" THEN ":8080" ELSE ":9090")
    /\ config.RedisPrefix = (IF environ.REDIS_PREFIX = "" THEN "ph:" ELSE "test:")
    /\ config.RedisDB = (IF environ.REDIS_DB = <<>> THEN "0" ELSE "3")

\* C13 as stated: for every subset of REDIS_ADDR, WU_KEY, WU_LOCATION that
\* is unset, collectConfig fails startup exactly when the subset is
\* non-empty and reports exactly the missing names, all at once, in the
\* order REDIS_ADDR, WU_KEY, WU_LOCATION; when none is missing it returns a
\* populated Config.
C13_Original ==
    proc # "collect" =>
        LET unset == UnsetRequired(environ)
        IN /\ ConfigFailed <=> unset # <<>>
           /\ ConfigFailed =>
                 boot.fatal = "Environment variables missing: " \o SprintList(unset)
           /\ ~ConfigFailed => ConfigPopulated

\* C13, amended: the statement holds when REDIS_DB is unset or is a decimal
\* integer in the range of int.  (Any other REDIS_DB ends startup with
\* "Error parsing REDIS_DB" whether or not a required variable is missing,
\* and before any missing variable is reported.)
C13_MissingReported ==
    (proc # "collect" /\ (environ.REDIS_DB = <<>> \/ ~Atoi(environ.REDIS_DB).err)) =>
        LET unset == UnsetRequired(environ)
        IN /\ ConfigFailed <=> unset # <<>>
           /\ ConfigFailed =>
                 boot.fatal = "Environment variables missing: " \o SprintList(unset)
           /\ ~ConfigFailed => ConfigPopulated

C13_Witness ==
    /\ environ.REDIS_ADDR = "" /\ environ.WU_KEY # "" /\ environ.WU_LOCATION = ""
    /\ environ.REDIS_DB = <<"3">>
    /\ proc = "exited"
    /\ boot.fatal = "Environment variables missing: [REDIS_ADDR WU_LOCATION]"

\* startup completed up to the listener: collectConfig returned a Config
\* with every required setting, and the Redis ping was answered
StartupCompleted ==
    /\ UnsetRequired(environ) = <<>>
    /\ config.RedisAddr # "" /\ config.WUndergroundKey # ""
    /\ config.WUndergroundLocation # ""
    /\ boot.pong = "PONG"

\* C19: no request is served unless startup completed: the listener is
\* started only after collectConfig returned with every required setting
\* present and the Redis ping succeeded; after a configuration failure or a
\* failed ping the process has terminated without serving any request.
C19_ServedOnlyAfterStartup ==
    /\ boot.listening => StartupCompleted
    /\ \A r \in Requests :
          req[r].pc # "new" => boot.listening /\ StartupCompleted
    /\ (boot.pong = "" /\ boot.fatal # "") =>
          /\ proc = "exited"
          /\ ~boot.listening
          /\ \A r \in Requests : req[r] = NewRequest

C19_Witness ==
    /\ boot.listening /\ boot.pong = "PONG" /\ config.RedisAddr = "localhost:6379"
    /\ \E r \in Requests :
          /\ req[r].pc = "done" /\ req[r].resp.status = 200
          /\ req[r].write = "ok"

\* the two title tables as the specification lists them
ListedStatusTitles ==
    (400 :> "Bad Request") @@ (401 :> "Unauthorized") @@ (404 :> "Not Found")
    @@ (405 :> "Method Not Allowed") @@ (406 :> "Not Acceptable")
    @@ (409 :> "Conflict") @@ (415 :> "Unsupported Media Type")
    @@ (422 :> "Unprocessable Entity") @@ (500 :> "Internal Server Error")
ListedCodeTitles ==
    (1 :> "Malformed JSON Body") @@ (2201 :> "Missing Required Attribute")
    @@ (2202 :> "Requested Relationship Not Found")
TitleIn(table, k) == IF k \in DOMAIN table THEN table[k] ELSE ""

\* C12: for every (status, code, detail) the document of makeErrorResponse
\* has status = the decimal string of status and detail unchanged; with a
\* non-zero code its title is codeTitle[code] and its code the decimal
\* string of code; with code zero its title is statusTitle[status] and the
\* code field is absent; the tables are the nine status titles and three
\* code titles listed, and an unlisted key gives an empty title.
C12_ErrorDocument ==
    errCall.applied =>
        LET st == errCall.status
            cd == errCall.code
            expected ==
                [Title  |-> IF cd # 0 THEN TitleIn(ListedCodeTitles, cd)
                            ELSE TitleIn(ListedStatusTitles, st),
                 Detail |-> errCall.detail,
                 Status |-> ToString(st),
                 Code   |-> IF cd # 0 THEN ToString(cd) ELSE ""]
        IN /\ errCall.obj = expected
           /\ errCall.resp.body = <<MarshalErrors(expected)>>

C12_Witness ==
    /\ errCall.applied
    /\ errCall.status = 422 /\ errCall.code = 2201 /\ errCall.detail = "POST"
    /\ errCall.obj = [Title |-> "Missing Required Attribute", Detail |-> "POST",
                      Status |-> "422", Code |-> "2201"]
    /\ errCall.resp.body =
          <<"{\"errors\":[{\"title\":\"Missing Required Attribute\",\"detail\":\"POST\",\"status\":\"422\",\"code\":\"2201\"}]}\n">>

\* request r's redis Set is executed by the server in this step
WriteExecutes(r) == ~req[r].stored /\ req'[r].stored

\* C14: concurrent same-day GET requests that all miss may each fetch
\* upstream and each write the cache; under every interleaving a request
\* makes at most one upstream call and at most one write, every executed
\* write replaces the entry of its key with the writer's document and
\* nothing else changes the cache, so once all have finished the entry is
\* the document of the write that executed last.
C14_LastWriteWins ==
    [][/\ \A r \in Requests :
             /\ Count(req'[r].calls, "fetch") <= 1
             /\ Count(req'[r].calls, "write") <= 1
       /\ \A r \in Requests :
             WriteExecutes(r) =>
                 /\ req[r].cacheKey \in DOMAIN cache'
                 /\ cache'[req[r].cacheKey].val = req[r].payload
                 /\ \A k \in DOMAIN cache' \ {req[r].cacheKey} :
                        k \in DOMAIN cache /\ cache'[k] = cache[k]
       /\ (\A r \in Requests : ~WriteExecutes(r)) => cache' = cache]_vars

\* two requests of the same day both missed before either wrote, both
\* fetched and both wrote different documents; the entry is the later one
C14_Witness ==
    \E r, q \in Requests :
        /\ r # q /\ req[r].cacheKey = req[q].cacheKey
        /\ req[r].read = "miss" /\ req[q].read = "miss"
        /\ req[r].age = 0 - 1 /\ req[q].age = 0 - 1
        /\ req[r].calls = <<"read", "fetch", "write">>
        /\ req[q].calls = <<"read", "fetch", "write">>
        /\ req[r].write = "ok" /\ req[q].write = "ok"
        /\ req[r].pc = "done" /\ req[q].pc = "done"
        /\ req[r].payload # req[q].payload
        /\ cache[req[q].cacheKey].by = q
        /\ cache[req[q].cacheKey].val = req[q].payload

\* request q is suspended in redis Get, in the upstream call or in redis Set
Waiting(q) ==
    proc = "running" /\ req[q].pc \in {"get", "fetch", "set", "stored"}

\* every outcome of request q's next step can be taken now (an error of
\* redis while the model has one left to give)
NextStepEnabled(q) ==
    CASE NextToArrive(q) ->
             /\ ENABLED ReceiveGet(q)
             /\ ENABLED (\E m \in Methods : ReceiveOther(q, m))
      [] req[q].pc = "get" ->
             /\ ENABLED (CacheGetHit(q) \/ CacheGetMiss(q))
             /\ (RedisErrors < MaxRedisErrors => ENABLED CacheGetError(q))
      [] req[q].pc = "fetch" ->
             /\ ENABLED (\E b \in Bodies : FetchOK(q, b))
             /\ ENABLED (\E e \in UpstreamErrors : FetchFail(q, e))
      [] req[q].pc = "set" ->
             /\ ENABLED CacheSetApply(q)
             /\ (RedisErrors < MaxRedisErrors => ENABLED CacheSetFail(q))
      [] req[q].pc = "stored" ->
             /\ ENABLED CacheSetOK(q)
             /\ (RedisErrors < MaxRedisErrors => ENABLED CacheSetFail(q))
      [] OTHER -> TRUE

\* C15: an upstream fetch failure is confined to the request that made the
\* call: that request is answered 500 after its single upstream call, every
\* other request in flight can still take its next step, and requests
\* arriving afterwards are still served.
C15_FetchFailureConfined ==
    \A r \in Requests :
        req[r].fetchErr # "" =>
            /\ req[r].pc = "done" /\ req[r].resp.status = 500
            /\ Count(req[r].calls, "fetch") = 1
            /\ \A q \in Requests \ {r} : NextStepEnabled(q)

\* C16: a request suspended in a cache call or in the upstream call never
\* blocks another request: in every reachable state in which a request is
\* waiting on I/O, each other request's next step is enabled.
C16_WaitingBlocksNobody ==
    \A q \in Requests :
        (\E r \in Requests \ {q} : Waiting(r)) => NextStepEnabled(q)

\* r is still in its upstream call while q, which arrived a week after r,
\* has run from its arrival to its response
C16_Witness ==
    \E r, q \in Requests :
        /\ r # q /\ nAdjust = 0
        /\ Waiting(r) /\ req[r].pc = "fetch"
        /\ req[q].day > req[r].day
        /\ req[q].pc = "done" /\ req[q].resp.status = 200
        /\ req[q].calls = <<"read", "fetch", "write">>

\* the sun_phase document with the given id and attributes (numerals),
\* written out
SunDoc(id, sunriseH, sunriseM, sunsetH, sunsetM) ==
    "{\"data\":{\"type\":\"sun_phase\",\"id\":\"" \o id
        \o "\",\"attributes\":{\"sunrise_h\":" \o sunriseH
        \o ",\"sunrise_m\":" \o sunriseM
        \o ",\"sunset_h\":" \o sunsetH
        \o ",\"sunset_m\":" \o sunsetM \o "}}}\n"

\* C18: every cache entry written by the handler holds a document whose id
\* is the key it is stored under: a request computes its key once, from the
\* date of its arrival, and uses that value for the cache read, the
\* record's id and the cache write, also when the local date changes while
\* the request is in progress.
C18_IdIsKey ==
    /\ \A k \in DOMAIN cache :
          cache[k].by # 0 =>
              /\ k = req[cache[k].by].cacheKey
              /\ cache[k].val = req[cache[k].by].payload
    /\ \A r \in Requests :
          /\ req[r].cacheKey # "" =>
                req[r].cacheKey =
                    CacheKey(config.RedisPrefix, CivilFromDays(req[r].day))
          /\ req[r].payload # "" =>
                req[r].payload \in FreshDocs(req[r].cacheKey)

\* a request has just written its entry on a later local date than the one
\* it arrived on
C18_Witness ==
    \E r \in Requests :
        /\ nAdjust = 0 /\ wall \div 24 > req[r].day
        /\ req[r].write = "ok"
        /\ req[r].cacheKey # CacheKey(config.RedisPrefix, Today(wall))
        /\ req[r].cacheKey \in DOMAIN cache
        /\ cache[req[r].cacheKey].by = r /\ cache[req[r].cacheKey].at = clock
        /\ cache[req[r].cacheKey].val = req[r].payload
        /\ CacheKey(config.RedisPrefix, Today(wall)) \notin DOMAIN cache

\* the beginning of a sun_phase document with the given id, and the
\* document with the given attributes
SunDocHead(id) == "{\"data\":{\"type\":\"sun_phase\",\"id\":\"" \o id

\* the documents of the malformed bodies if every unparsed field came out
\* zero: all zero for the body that is not JSON; sunset_h alone for the
\* incomplete one; sunrise_m and sunset_m alone for the one whose hours
\* are outside the int range
ZeroedDocs(key) ==
    { SunDocHead(key)
          \o "\",\"attributes\":{\"sunrise_h\":0,\"sunrise_m\":0,\"sunset_h\":0,\"sunset_m\":0}}}\n",
      SunDocHead(key)
          \o "\",\"attributes\":{\"sunrise_h\":0,\"sunrise_m\":0,\"sunset_h\":19,\"sunset_m\":0}}}\n",
      SunDocHead(key)
          \o "\",\"attributes\":{\"sunrise_h\":0,\"sunrise_m\":52,\"sunset_h\":0,\"sunset_m\":5}}}\n" }

\* the same, with the limits of the int range for the two hours outside it
DegradedDocs(key) ==
    { SunDocHead(key)
          \o "\",\"attributes\":{\"sunrise_h\":0,\"sunrise_m\":0,\"sunset_h\":0,\"sunset_m\":0}}}\n",
      SunDocHead(key)
          \o "\",\"attributes\":{\"sunrise_h\":0,\"sunrise_m\":0,\"sunset_h\":19,\"sunset_m\":0}}}\n",
      SunDocHead(key)
          \o "\",\"attributes\":{\"sunrise_h\":-9223372036854775808,\"sunrise_m\":52,\"sunset_h\":9223372036854775807,\"sunset_m\":5}}}\n" }

\* after a fetch that returned a body the handler has not failed: it holds
\* one of Docs, answers 200 with it and has written it under the day's key
\* with the 168-hour TTL; a later hit on that entry is served it
DegradesTo(Docs(_)) ==
    /\ \A r \in Requests :
          /\ (req[r].pc \in {"set", "stored", "done"}
                 /\ Count(req[r].calls, "fetch") = 1) =>
                /\ req[r].fetchErr = ""
                /\ req[r].payload \in Docs(req[r].cacheKey)
                /\ req[r].resp.status \in {0, 200}
                /\ (req[r].pc = "done" =>
                       /\ req[r].resp.status = 200
                       /\ req[r].resp.body = <<req[r].payload>>
                       /\ req[r].write \in {"ok", "error"})
          /\ (req[r].read = "hit" /\ req[r].hitBy # 0) =>
                /\ req[r].resp.status = 200
                /\ req[r].resp.body = <<req[req[r].hitBy].payload>>
                /\ req[r].resp.body[1] \in Docs(req[r].cacheKey)
                /\ req[r].calls = <<"read">>
    /\ \A k \in DOMAIN cache :
          cache[k].by # 0 =>
              /\ cache[k].val \in Docs(k)
              /\ cache[k].exp = cache[k].at + 168
              /\ k = CacheKey(config.RedisPrefix,
                              CivilFromDays(req[cache[k].by].day))

\* C17 as stated: when the upstream call succeeds at the transport level
\* but its body is malformed, the handler does not fail: it answers 200
\* with a document whose unparsed fields are zero, and writes that document
\* to the cache under the day's key with the 168-hour TTL, so that later
\* same-day requests are served those zero values from the cache.
C17_MalformedBodyZeroes == DegradesTo(ZeroedDocs)

\* C17, amended: as above, where a field comes out zero when it is missing
\* or strconv.Atoi rejects it as not a number, and as the nearest limit of
\* the int range when strconv.Atoi rejects it as out of range: a decimal
\* number outside the int range, or text whose digits after the optional
\* sign reach 1<<64 before anything that is not a digit.
C17_MalformedBodyDegrades == DegradesTo(DegradedDocs)

\* a request fetched the body with the out-of-range hours and cached the
\* document with the limits of the int range for them; a later request of
\* the same day was served it
C17_Witness ==
    \E r, h \in Requests :
        /\ r # h
        /\ req[r].calls = <<"read", "fetch", "write">> /\ req[r].write = "ok"
        /\ req[r].resp.status = 200
        /\ req[r].payload =
              SunDoc(req[r].cacheKey, "-9223372036854775808", "52",
                     "9223372036854775807", "5")
        /\ req[h].read = "hit" /\ req[h].hitBy = r /\ req[h].day = req[r].day
        /\ req[h].resp.status = 200
        /\ req[h].resp.body = <<req[r].payload>>
        /\ cache[req[r].cacheKey].exp = cache[req[r].cacheKey].at + 168

\* the same for the body that is not JSON: every field is zero
AllZeroServed ==
    \E r, h \in Requests :
        /\ r # h
        /\ req[r].write = "ok"
        /\ req[r].payload = SunDoc(req[r].cacheKey, "0", "0", "0", "0")
        /\ req[h].read = "hit" /\ req[h].hitBy = r
        /\ req[h].resp.body = <<req[r].payload>>

====
